---- MODULE Spec2Model ----
(***************************************************************************)
(* Model of the Nano Banana front end: the generation request service      *)
(* (src/src/services/gemini.ts) and the workflow controller, the App       *)
(* component's state and handlers (src/src/App.tsx).                       *)
(*                                                                         *)
(* JavaScript runs each handler, and each continuation after an await, to  *)
(* completion before any other handler: an action below is one such run.   *)
(* handleGenerate is two runs: the part up to the await of generateImage,  *)
(* and the continuation once the promise settles.  A promise that rejects  *)
(* before any network call (missing credential) settles in the microtask   *)
(* that directly follows the first run, so both runs form one action.      *)
(*                                                                         *)
(* Text is a sequence of one-character strings, so that trim() is          *)
(* computed.  The id field of a GeneratedImage (Math.random) is read by no *)
(* handler and is left out of the records.                                 *)
(***************************************************************************)
EXTENDS Integers, Sequences, FiniteSets, TLC

\* ---------------------------------------------------------------- bounds

MaxParts == 3
MaxSubmits == 2
MaxClock == 1
MaxSelect == 3
MaxFileObjs == 7

\* The cap of the reference-file list, slice(0, 5).
MaxFiles == 5

\* ------------------------------------------------------------------ text

Chars == {" ", "a", "b"}

IsSpace(c) == c = " "

\* What the user types: nothing, blanks, and prompts with and without blanks
\* around them.
Texts ==
  {<<>>, <<" ">>, <<" ", " ">>, <<"a">>, <<" ", "a", " ">>, <<"b">>}

RECURSIVE TrimStart(_)
TrimStart(s) ==
  IF s # <<>> /\ IsSpace(Head(s)) THEN TrimStart(Tail(s)) ELSE s

RECURSIVE TrimEnd(_)
TrimEnd(s) ==
  IF s # <<>> /\ IsSpace(s[Len(s)]) THEN TrimEnd(SubSeq(s, 1, Len(s) - 1)) ELSE s

\* String.prototype.trim
Trim(s) == TrimEnd(TrimStart(s))

\* Variant: the guard without trim().
IsEmpty(s) == s = <<>>

\* !prompt.trim(): the empty string is falsy
IsBlank(s) == Trim(s) = <<>>

\* ------------------------------------------------- services/gemini.ts

AspectRatios == {"1:1", "16:9", "9:16", "4:3", "3:4"}

ModelTypes == {"gemini-2.5-flash-image", "gemini-3.1-flash-image-preview"}

\* process.env.GEMINI_API_KEY: <<>> is an unset variable, <<s>> one set to s.
EnvValues == {<<>>, <<"">>, <<"key">>}

\* getAI: if (!apiKey) throw
GetAIThrows(apiKey) == apiKey = <<>> \/ apiKey[1] = ""

\* An optional string field of the response: <<>> is undefined, <<s>> is s.
\* A template literal writes undefined as the text "undefined".
Interpolate(field) == IF field = <<>> THEN "undefined" ELSE field[1]

\* `data:${part.inlineData.mimeType};base64,${part.inlineData.data}`
DataUri(inlineData) ==
  "data:" \o Interpolate(inlineData.mimeType) \o ";base64," \o Interpolate(inlineData.data)

\* A part of a candidate's content: inlineData is <<>> (no inline data) or
\* <<[mimeType, data]>>.
TextPart == [text |-> <<"caption">>, inlineData |-> <<>>]

InlinePart(m, d) == [text |-> <<>>, inlineData |-> <<[mimeType |-> m, data |-> d]>>]

PartPng == InlinePart(<<"image/png">>, <<"AAAA">>)

PartJpeg == InlinePart(<<"image/jpeg">>, <<"BBBB">>)

PartBare == InlinePart(<<>>, <<"AAAA">>)

Parts == {TextPart, PartPng, PartJpeg, PartBare}

PartSeqs == UNION {[1..n -> Parts] : n \in 0..MaxParts}

\* A candidate: content is <<>> (undefined) or <<[parts]>>, parts is <<>>
\* (undefined) or <<the sequence of parts>>.
Candidate(content) == [content |-> content]

Candidates ==
  {Candidate(<<>>), Candidate(<<[parts |-> <<>>]>>)}
    \cup {Candidate(<<[parts |-> <<ps>>]>>) : ps \in PartSeqs}

Decoy == Candidate(<<[parts |-> <<(<<PartJpeg>>)>>]>>)

\* A response: candidates is <<>> (undefined) or <<the sequence of candidates>>.
Responses ==
  {[candidates |-> <<>>], [candidates |-> <<(<<>>)>>]}
    \cup {[candidates |-> <<(<<c>>)>>] : c \in Candidates}
    \cup {[candidates |-> <<(<<c, Decoy>>)>>] : c \in Candidates}

\* response.candidates?.[0]?.content?.parts, <<>> when any link is undefined
FirstParts(response) ==
  IF response.candidates = <<>> THEN <<>>
  ELSE IF response.candidates[1] = <<>> THEN <<>>
  ELSE IF response.candidates[1][1].content = <<>> THEN <<>>
  ELSE response.candidates[1][1].content[1].parts

\* for (const part of parts) if (part.inlineData) images.push(...)
RECURSIVE PushInline(_, _)
PushInline(images, parts) ==
  IF parts = <<>> THEN images
  ELSE PushInline(
         IF Head(parts).inlineData # <<>>
           THEN Append(images, DataUri(Head(parts).inlineData[1]))
           ELSE images,
         Tail(parts))

\* Variant: the loop without the test of part.inlineData.
RECURSIVE PushEveryPart(_, _)
PushEveryPart(images, parts) ==
  IF parts = <<>> THEN images
  ELSE PushEveryPart(
         Append(images,
                IF Head(parts).inlineData # <<>>
                  THEN DataUri(Head(parts).inlineData[1])
                  ELSE "data:undefined;base64,undefined"),
         Tail(parts))

ExtractImagesAll(response) ==
  IF FirstParts(response) # <<>>
    THEN PushEveryPart(<<>>, FirstParts(response)[1])
    ELSE <<>>

\* generateImage, lines 39-49: the images of a response
ExtractImages(response) ==
  IF FirstParts(response) # <<>>
    THEN PushInline(<<>>, FirstParts(response)[1])
    ELSE <<>>

\* The outbound generateContent request of a config
Request(config) ==
  [model |-> config.model,
   text |-> config.prompt,
   aspectRatio |-> config.aspectRatio]

\* Variant: the request goes out before the credential is looked at.
StartSendsFirst(apiKey, config) ==
  [threw |-> GetAIThrows(apiKey), sent |-> <<Request(config)>>]

\* generateImage up to the await, lines 22-37: getAI throws, or the request is
\* handed to ai.models.generateContent.  sent holds the outbound calls.
ServiceStart(apiKey, config) ==
  IF GetAIThrows(apiKey)
    THEN [threw |-> TRUE, sent |-> <<>>]
    ELSE [threw |-> FALSE, sent |-> <<Request(config)>>]

\* The replies the endpoint gives the controller's requests: no candidates,
\* text only, one image, two images around a text part.
Reply(ps) == [candidates |-> <<(<<Candidate(<<[parts |-> <<ps>>]>>)>>)>>]

Replies ==
  {[candidates |-> <<>>],
   Reply(<<TextPart>>),
   Reply(<<PartPng>>),
   Reply(<<PartJpeg, TextPart, PartPng>>)}

\* ------------------------------------------------------------- App.tsx

VARIABLES
  prompt,         \* useState('')
  aspectRatio,    \* useState('1:1')
  model,          \* useState('gemini-2.5-flash-image')
  isGenerating,   \* useState(false)
  images,         \* useState([]): the history, newest first
  uploadedFiles,  \* useState([]): File objects, named by the order of selection
  env,            \* process.env.GEMINI_API_KEY
  inflight,       \* the handleGenerate runs suspended at the await, in call order
  now,            \* the clock Date.now() reads
  effects,        \* the calls of the latest handleGenerate run, in order
  alerts,         \* notices shown by alert()
  submits,        \* runs of handleGenerate
  serviceCalls,   \* calls of generateImage
  netCalls,       \* calls of ai.models.generateContent
  failed,         \* generateImage promises that rejected
  settled,        \* the latest generateImage promise to settle, and its value
  nextFile,       \* the name of the next File object the user selects
  fileEvent,      \* the latest event of the file input or a remove button:
                  \* a change with arg files, or a remove of index arg
  call            \* a generateImage invocation followed step by step

ctlVars ==
  <<prompt, aspectRatio, model, isGenerating, images, env, inflight, now,
    effects, alerts, submits, serviceCalls, netCalls, failed, settled>>

fileVars == <<uploadedFiles, nextFile, fileEvent>>

vars == <<ctlVars, fileVars, call>>

\* The ratios and models the settings row offers (lines 246, 267, 273).
MenuRatios == {"1:1", "16:9", "9:16"}

\* The part of the state a run of handleGenerate writes.
Run == [isGenerating |-> isGenerating, images |-> images, alerts |-> alerts,
        effects |-> <<>>]

\* setIsGenerating(true), line 120
MarkInFlight(st) ==
  [st EXCEPT !.isGenerating = TRUE,
             !.effects = Append(@, "setIsGenerating(true)")]

\* Variant: the records take the prompt of the moment the answer arrives.
NewImagesCurrentPrompt(results, p, stamps) ==
  [i \in 1..Len(results) |->
     [url |-> results[i], prompt |-> prompt, timestamp |-> stamps[i]]]

\* results.map(url => ({id, url, prompt, timestamp: Date.now()})), lines 128-133;
\* stamps[i] is what Date.now() returned for the i-th element.
NewImages(results, p, stamps) ==
  [i \in 1..Len(results) |->
     [url |-> results[i], prompt |-> p, timestamp |-> stamps[i]]]

\* Variant: the batch goes behind the history.
AppendBatch(newImages, prev) == prev \o newImages

\* prev => [...newImages, ...prev], line 135
PrependBatch(newImages, prev) == newImages \o prev

\* setImages(...), line 135
SetImages(st, newImages) ==
  [st EXCEPT !.images = PrependBatch(newImages, @),
             !.effects = Append(@, "setImages")]

\* Variant: the failure is logged and no notice is shown.
CatchSilent(st) ==
  [st EXCEPT !.effects = @ \o <<"console.error">>]

\* catch: console.error, alert, lines 136-138
CatchBlock(st) ==
  [st EXCEPT !.alerts = @ + 1,
             !.effects = @ \o <<"console.error", "alert">>]

\* Variant: no finally block.
FinallySkipped(st) == st

\* finally: setIsGenerating(false), lines 139-141
FinallyBlock(st) ==
  [st EXCEPT !.isGenerating = FALSE,
             !.effects = Append(@, "setIsGenerating(false)")]

\* The continuation of handleGenerate once generateImage resolved
OnFulfilled(st, newImages) == FinallyBlock(SetImages(st, newImages))

\* The continuation of handleGenerate once generateImage rejected
OnRejected(st) == FinallyBlock(CatchBlock(st))

\* The readings of Date.now() while a batch of k records is built: the clock
\* never runs backwards and may advance between two readings.
Stamps(k) ==
  {s \in [1..k -> now..MaxClock] : \A i \in 1..(k - 1) : s[i] <= s[i + 1]}

Commit(st) ==
  /\ isGenerating' = st.isGenerating
  /\ images' = st.images
  /\ alerts' = st.alerts
  /\ effects' = st.effects

RemoveAt(s, i) == SubSeq(s, 1, i - 1) \o SubSeq(s, i + 1, Len(s))

\* No generateImage invocation is being followed.
IdleCall ==
  [stage |-> "idle", config |-> <<>>, sent |-> <<>>, response |-> <<>>,
   result |-> <<>>, error |-> ""]

NoneSettled == [n |-> 0, outcome |-> "none", value |-> <<>>]

Init ==
  /\ prompt = <<>>
  /\ aspectRatio = "1:1"
  /\ model = "gemini-2.5-flash-image"
  /\ isGenerating = FALSE
  /\ images = <<>>
  /\ uploadedFiles = <<>>
  /\ env \in EnvValues
  /\ inflight = <<>>
  /\ now = 0
  /\ effects = <<>>
  /\ alerts = 0
  /\ submits = 0
  /\ serviceCalls = 0
  /\ netCalls = 0
  /\ failed = 0
  /\ settled = NoneSettled
  /\ nextFile = 1
  /\ fileEvent = [kind |-> "none", arg |-> 0]
  /\ call = IdleCall

\* onChange of the textarea, line 229
SetPrompt ==
  /\ \E p \in Texts : prompt' = p
  /\ UNCHANGED <<aspectRatio, model, isGenerating, images, env, inflight, now,
                 effects, alerts, submits, serviceCalls, netCalls, failed,
                 settled>>
  /\ UNCHANGED <<fileVars, call>>

\* {prompt, aspectRatio, model}, lines 122-126
CurrentConfig ==
  [prompt |-> prompt, aspectRatio |-> aspectRatio, model |-> model]

\* handleGenerate up to the await, lines 117-126, and, when getAI throws,
\* its catch and finally blocks.
HandleGenerate ==
  /\ submits < MaxSubmits
  /\ submits' = submits + 1
  /\ IF IsBlank(prompt)
       THEN /\ effects' = <<>>
            /\ UNCHANGED <<isGenerating, images, alerts, inflight,
                           serviceCalls, netCalls, failed, settled>>
       ELSE LET start == ServiceStart(env, CurrentConfig) IN
            /\ serviceCalls' = serviceCalls + 1
            /\ netCalls' = netCalls + Len(start.sent)
            /\ IF start.threw
                 THEN /\ Commit(OnRejected(MarkInFlight(Run)))
                      /\ failed' = failed + 1
                      /\ settled' = [n |-> serviceCalls + 1,
                                     outcome |-> "rejected", value |-> <<>>]
                      /\ inflight' = inflight
                 ELSE /\ Commit(MarkInFlight(Run))
                      /\ inflight' = Append(inflight,
                           [n |-> serviceCalls + 1, prompt |-> prompt,
                            sent |-> start.sent])
                      /\ UNCHANGED <<failed, settled>>
  /\ UNCHANGED <<prompt, aspectRatio, model, env, now>>
  /\ UNCHANGED <<fileVars, call>>

\* disabled={isGenerating || !prompt.trim()}, line 289
ButtonDisabled == isGenerating \/ IsBlank(prompt)

\* onClick of the Generate button, lines 287-290
ClickGenerate ==
  /\ ~ButtonDisabled
  /\ HandleGenerate

\* The endpoint answers the request of inflight[i]: generateImage resolves and
\* handleGenerate continues, lines 128-135 and 139-141.
Resolve(i) ==
  /\ i \in 1..Len(inflight)
  /\ \E response \in Replies :
       LET results == ExtractImages(response) IN
       \E stamps \in Stamps(Len(results)) :
         /\ Commit(OnFulfilled(Run,
                     NewImages(results, inflight[i].prompt, stamps)))
         /\ now' = IF results = <<>> THEN now ELSE stamps[Len(results)]
         /\ settled' = [n |-> inflight[i].n, outcome |-> "fulfilled",
                        value |-> results]
  /\ inflight' = RemoveAt(inflight, i)
  /\ UNCHANGED <<prompt, aspectRatio, model, env, submits, serviceCalls,
                 netCalls, failed>>
  /\ UNCHANGED <<fileVars, call>>

\* The request of inflight[i] fails (transport or endpoint error):
\* generateImage rejects and handleGenerate continues, lines 136-141.
Reject(i) ==
  /\ i \in 1..Len(inflight)
  /\ Commit(OnRejected(Run))
  /\ failed' = failed + 1
  /\ settled' = [n |-> inflight[i].n, outcome |-> "rejected", value |-> <<>>]
  /\ inflight' = RemoveAt(inflight, i)
  /\ UNCHANGED <<prompt, aspectRatio, model, env, now, submits, serviceCalls,
                 netCalls>>
  /\ UNCHANGED <<fileVars, call>>

Settle == \E i \in 1..Len(inflight) : Resolve(i) \/ Reject(i)

\* onClick of an aspect-ratio entry, line 249
SetAspectRatio ==
  /\ \E ratio \in MenuRatios : aspectRatio' = ratio
  /\ UNCHANGED <<prompt, model, isGenerating, images, env, inflight, now,
                 effects, alerts, submits, serviceCalls, netCalls, failed,
                 settled>>
  /\ UNCHANGED <<fileVars, call>>

\* onClick of a model entry, lines 267 and 273
SetModel ==
  /\ \E m \in ModelTypes : model' = m
  /\ UNCHANGED <<prompt, aspectRatio, isGenerating, images, env, inflight, now,
                 effects, alerts, submits, serviceCalls, netCalls, failed,
                 settled>>
  /\ UNCHANGED <<fileVars, call>>

\* Array.prototype.slice(-n), for the variant below
SliceLast(s, n) == SubSeq(s, Len(s) - n + 1, Len(s))

\* Array.prototype.slice(0, n)
SliceFirst(s, n) == SubSeq(s, 1, IF Len(s) < n THEN Len(s) ELSE n)

\* Variant: no cap.
AddFilesUncapped(prev, files) == prev \o files

\* Variant: the cap keeps the newest files.
AddFilesKeepNewest(prev, files) ==
  IF Len(prev \o files) <= MaxFiles THEN prev \o files
  ELSE SliceLast(prev \o files, MaxFiles)

\* prev => [...prev, ...files].slice(0, 5), line 147
AddFiles(prev, files) == SliceFirst(prev \o files, MaxFiles)

\* prev.filter((_, i) => i !== index) from position i on, line 152
RECURSIVE FilterFrom(_, _, _)
FilterFrom(s, i, index) ==
  IF s = <<>> THEN <<>>
  ELSE (IF i # index THEN <<Head(s)>> ELSE <<>>)
         \o FilterFrom(Tail(s), i + 1, index)

\* Variant: positions counted from one.
DropIndexFromOne(prev, index) == FilterFrom(prev, 1, index)

DropIndex(prev, index) == FilterFrom(prev, 0, index)

\* The File objects of a change event that selects n files
Selection(n) == [j \in 1..n |-> nextFile + j - 1]

\* handleFileUpload, lines 144-149: e.target.files is null or a list of n
\* files the user just selected.
HandleFileUpload ==
  /\ \/ /\ fileEvent' = [kind |-> "changeWithoutList", arg |-> 0]
        /\ UNCHANGED <<uploadedFiles, nextFile>>
     \/ \E n \in 0..MaxSelect :
          /\ nextFile + n - 1 <= MaxFileObjs
          /\ uploadedFiles' = AddFiles(uploadedFiles, Selection(n))
          /\ nextFile' = nextFile + n
          /\ fileEvent' = [kind |-> "change", arg |-> n]
  /\ UNCHANGED <<ctlVars, call>>

\* removeFile, lines 151-153; the remove button of entry i calls it with i,
\* line 213, and nothing in its code restricts the index.
RemoveFile ==
  /\ \E index \in -1..MaxFiles :
       /\ uploadedFiles' = DropIndex(uploadedFiles, index)
       /\ fileEvent' = [kind |-> "remove", arg |-> index]
  /\ UNCHANGED <<nextFile, ctlVars, call>>

\* ---- the generation cycle: the prompt, submissions and their answers

Next ==
  \/ SetPrompt
  \/ HandleGenerate
  \/ ClickGenerate
  \/ Settle

Spec == Init /\ [][Next]_vars

\* ---- the generation cycle with the settings row in use

NextSettings ==
  \/ Next
  \/ SetAspectRatio
  \/ SetModel

SpecSettings == Init /\ [][NextSettings]_vars

\* ---- the page as a user drives it: typing, the settings row, the Generate
\* button and the answers

NextEdits ==
  \/ SetPrompt
  \/ SetAspectRatio
  \/ SetModel
  \/ ClickGenerate
  \/ Settle

SpecEdits == Init /\ [][NextEdits]_vars

\* ---- the reference-file list, with the rest of the state as it stands
\* before, during and after a first generation

\* The state after typing "a" and clicking Generate, and after its answer.
ClickedOnce ==
  /\ prompt = <<"a">>
  /\ isGenerating = TRUE
  /\ images = <<>>
  /\ inflight = <<[n |-> 1, prompt |-> <<"a">>,
                   sent |-> <<Request([prompt |-> <<"a">>,
                                       aspectRatio |-> "1:1",
                                       model |-> "gemini-2.5-flash-image"])>>]>>
  /\ effects = <<"setIsGenerating(true)">>
  /\ submits = 1 /\ serviceCalls = 1 /\ netCalls = 1
  /\ settled = NoneSettled

AnsweredOnce ==
  /\ prompt = <<"a">>
  /\ isGenerating = FALSE
  /\ images = NewImages(ExtractImages(Reply(<<PartJpeg, TextPart, PartPng>>)),
                        <<"a">>, <<0, 0>>)
  /\ inflight = <<>>
  /\ effects = <<"setImages", "setIsGenerating(false)">>
  /\ submits = 1 /\ serviceCalls = 1 /\ netCalls = 1
  /\ settled = [n |-> 1, outcome |-> "fulfilled",
                value |-> ExtractImages(Reply(<<PartJpeg, TextPart, PartPng>>))]

InitFiles ==
  /\ \/ /\ prompt = <<>> /\ isGenerating = FALSE /\ images = <<>>
        /\ inflight = <<>> /\ effects = <<>>
        /\ submits = 0 /\ serviceCalls = 0 /\ netCalls = 0
        /\ settled = NoneSettled
     \/ ClickedOnce
     \/ AnsweredOnce
  /\ aspectRatio = "1:1"
  /\ model = "gemini-2.5-flash-image"
  /\ env = <<"key">>
  /\ now = 0
  /\ alerts = 0
  /\ failed = 0
  /\ uploadedFiles = <<>>
  /\ nextFile = 1
  /\ fileEvent = [kind |-> "none", arg |-> 0]
  /\ call = IdleCall

NextFiles ==
  \/ HandleFileUpload
  \/ RemoveFile
  \/ SetPrompt

SpecFiles == InitFiles /\ [][NextFiles]_vars

\* ---- generateImage on its own, one invocation at a time

Configs == [prompt : Texts, aspectRatio : AspectRatios, model : ModelTypes]

\* generateImage(config) is called, lines 22-37.
CallGenerateImage ==
  /\ call.stage # "awaiting"
  /\ \E config \in Configs :
       LET start == ServiceStart(env, config) IN
       call' = [stage |-> IF start.threw THEN "rejected" ELSE "awaiting",
                config |-> <<config>>,
                sent |-> start.sent,
                response |-> <<>>,
                result |-> <<>>,
                error |-> IF start.threw THEN "credential" ELSE ""]
  /\ UNCHANGED <<ctlVars, fileVars>>

\* generateContent resolves and generateImage returns, lines 39-49.
EndpointResponds ==
  /\ call.stage = "awaiting"
  /\ \E response \in Responses :
       call' = [call EXCEPT !.stage = "resolved",
                            !.response = <<response>>,
                            !.result = <<ExtractImages(response)>>]
  /\ UNCHANGED <<ctlVars, fileVars>>

\* generateContent rejects and generateImage passes the failure on.
EndpointFails ==
  /\ call.stage = "awaiting"
  /\ call' = [call EXCEPT !.stage = "rejected", !.error = "transport"]
  /\ UNCHANGED <<ctlVars, fileVars>>

NextService ==
  \/ CallGenerateImage
  \/ EndpointResponds
  \/ EndpointFails

SpecService == Init /\ [][NextService]_vars

\* The liveness of the in-flight flag is checked with every outstanding
\* request eventually answered or failed.
FairSpec == Spec /\ WF_vars(Settle)

\* ------------------------------------------------------------- claims

\* Submissions that passed the guard and ran to their end.
Completed == serviceCalls - Len(inflight)

Last(s) == s[Len(s)]

\* C1: handleGenerate called again while an earlier call of generateImage has
\* not settled issues no second request: at most one generation request is
\* outstanding at any time.
C1_AtMostOneOutstanding == Len(inflight) <= 1

\* C2: when a submission that passed the guard completes, by success or by
\* failure, isGenerating is false and clearing it was the last call of the
\* run; and with every request eventually settled the flag never stays true.
C2_FlagClearedLast ==
  /\ [][Completed' > Completed =>
          /\ isGenerating' = FALSE
          /\ effects' # <<>>
          /\ Last(effects') = "setIsGenerating(false)"]_vars
  /\ (isGenerating ~> ~isGenerating)

\* Both a successful and a failed submission have completed.
C2_Witness ==
  /\ Completed = 2
  /\ failed = 1
  /\ images # <<>>
  /\ ~isGenerating

\* C3: a submission with an empty or whitespace-only prompt calls neither
\* generateImage nor the endpoint and changes neither the in-flight flag nor
\* the history.
C3_BlankSubmitIsNoOp ==
  [][(submits' = submits + 1 /\ \A j \in 1..Len(prompt) : prompt[j] = " ") =>
       /\ serviceCalls' = serviceCalls
       /\ netCalls' = netCalls
       /\ inflight' = inflight
       /\ isGenerating' = isGenerating
       /\ images' = images]_vars

\* A whitespace-only prompt was submitted while a request was in flight.
C3_Witness ==
  /\ prompt = <<" ", " ">>
  /\ submits = 2
  /\ serviceCalls = 1
  /\ effects = <<>>
  /\ isGenerating

\* C4: when a submission succeeds with k payloads, the history becomes the k
\* new records, one per payload in the order returned, followed by the whole
\* history of the moment of the update in its previous order.
C4_BatchPrepended ==
  [][(settled' # settled /\ settled'.outcome = "fulfilled") =>
       LET k == Len(settled'.value) IN
       /\ Len(images') = k + Len(images)
       /\ \A j \in 1..k : images'[j].url = settled'.value[j]
       /\ \A j \in 1..Len(images) : images'[k + j] = images[j]]_vars

\* The first request was answered after the second one's results were
\* inserted: its two records stand before the second one's two records.
C4_Witness ==
  /\ settled.n = 1
  /\ settled.outcome = "fulfilled"
  /\ Len(settled.value) = 2
  /\ Len(images) = 4
  /\ images[1].prompt # images[3].prompt
  /\ inflight = <<>>

\* C5: when generateImage fails, the controller shows exactly one notice,
\* leaves the history as it was, and clears the in-flight flag, so that the
\* Generate button works again.
C5_FailureHandled ==
  [][failed' = failed + 1 =>
       /\ alerts' = alerts + 1
       /\ images' = images
       /\ isGenerating' = FALSE
       /\ prompt' = prompt]_vars

\* A request failed in transport with results of an earlier one in the
\* history, and the button is enabled with the same prompt.
C5_Witness ==
  /\ settled.outcome = "rejected"
  /\ netCalls = 2
  /\ failed = 1
  /\ alerts = 1
  /\ images # <<>>
  /\ ~ButtonDisabled

\* The parts of the first candidate of a response, read off the response.
C6_Parts(response) ==
  IF response.candidates = <<>> THEN <<>>
  ELSE LET cs == response.candidates[1] IN
       IF cs = <<>> THEN <<>>
       ELSE IF cs[1].content = <<>> THEN <<>>
       ELSE IF cs[1].content[1].parts = <<>> THEN <<>>
       ELSE cs[1].content[1].parts[1]

C6_HasInline(part) == part.inlineData # <<>>

\* C6: generateImage returns one item per inline-data part of the first
\* candidate's parts, in their order, each data:<mime>;base64,<data> of that
\* part's MIME type and payload; other parts are skipped, and no inline-data
\* part or no candidate gives the empty sequence.
C6_OneUriPerInlinePart ==
  call.stage = "resolved" =>
    LET inline == SelectSeq(C6_Parts(call.response[1]), C6_HasInline)
        result == call.result[1]
    IN /\ Len(result) = Len(inline)
       /\ \A j \in 1..Len(inline) :
            LET d == inline[j].inlineData[1] IN
            (d.mimeType # <<>> /\ d.data # <<>>) =>
              result[j] = "data:" \o d.mimeType[1] \o ";base64," \o d.data[1]

\* A response of three parts, a text part between two images, gave the two
\* data URIs in the order of the parts.
C6_Witness ==
  /\ call.stage = "resolved"
  /\ Len(C6_Parts(call.response[1])) = 3
  /\ call.result[1] =
       <<"data:image/jpeg;base64,BBBB", "data:image/png;base64,AAAA">>

\* C7: an invocation of generateImage with GEMINI_API_KEY absent fails with
\* no outbound call, and an invocation that passed the credential check has
\* issued exactly one outbound call, whatever the endpoint answered.
C7_NoCallWithoutCredential ==
  /\ (call.stage # "idle" /\ env = <<>>) =>
       (call.sent = <<>> /\ call.stage = "rejected")
  /\ (call.stage \in {"awaiting", "resolved"} \/ call.error = "transport") =>
       Len(call.sent) = 1

\* An invocation failed for the missing credential.
C7_Witness ==
  /\ env = <<>>
  /\ call.stage = "rejected"
  /\ call.error = "credential"
  /\ call.sent = <<>>

\* The list a change event of the file input leaves: the files selected in a
\* step are nextFile..nextFile'-1.
C8_Selected == [j \in 1..(nextFile' - nextFile) |-> nextFile + j - 1]

C8_FirstFive(s) == [j \in 1..(IF Len(s) < 5 THEN Len(s) ELSE 5) |-> s[j]]

\* C8: the reference-file list never holds more than 5 entries, and an
\* addition sets it to the first 5 elements of the existing list followed by
\* the newly selected files.
C8_CappedAtFive ==
  [][/\ Len(uploadedFiles') <= 5
     /\ nextFile' # nextFile =>
          uploadedFiles' = C8_FirstFive(uploadedFiles \o C8_Selected)]_vars

\* After a removal, an addition of three files overflowed the list.
C8_Witness ==
  /\ fileEvent = [kind |-> "change", arg |-> 3]
  /\ Len(uploadedFiles) = 5
  /\ uploadedFiles[1] # 1
  /\ uploadedFiles[5] # nextFile - 1

\* A change event whose files bring the total above 5.
C9_Overflows == nextFile' # nextFile /\ Len(uploadedFiles) + (nextFile' - nextFile) > 5

\* C9 as stated: an addition that brings the total above 5 leaves the 5 most
\* recently selected files.
C9_KeepsMostRecentFive ==
  [][C9_Overflows =>
       LET all == uploadedFiles \o C8_Selected IN
       uploadedFiles' = [j \in 1..5 |-> all[Len(all) - 5 + j]]]_vars

\* C9 as amended: an addition that brings the total above 5 keeps every
\* existing entry in place, fills the list up to 5 with the first of the new
\* files and drops the rest, the most recently selected file among them.
C9_KeepsEarliestFive ==
  [][C9_Overflows =>
       /\ Len(uploadedFiles') = 5
       /\ \A j \in 1..Len(uploadedFiles) : uploadedFiles'[j] = uploadedFiles[j]
       /\ \A j \in (Len(uploadedFiles) + 1)..5 :
            uploadedFiles'[j] = nextFile + (j - Len(uploadedFiles)) - 1
       /\ \A j \in 1..5 : uploadedFiles'[j] # nextFile' - 1]_vars

\* Two files were added to a list of four: the first of them is the fifth
\* entry and the second is not in the list.
C9_Witness ==
  /\ fileEvent = [kind |-> "change", arg |-> 2]
  /\ Len(uploadedFiles) = 5
  /\ uploadedFiles[5] = nextFile - 2
  /\ uploadedFiles[4] < nextFile - 2

\* A step of removeFile(index).
C10_Removes(index) ==
  /\ fileEvent' = [kind |-> "remove", arg |-> index]
  /\ fileEvent' # fileEvent \/ uploadedFiles' # uploadedFiles

\* C10: removeFile(i) with i a position of the list removes that entry and
\* keeps the others in their order; with any other index it leaves the list
\* as it is; prompt, history and in-flight flag are not touched.
C10_RemovesByPosition ==
  [][\A index \in -1..MaxFiles :
       C10_Removes(index) =>
         /\ IF index \in 0..(Len(uploadedFiles) - 1)
              THEN /\ Len(uploadedFiles') = Len(uploadedFiles) - 1
                   /\ \A j \in 1..index : uploadedFiles'[j] = uploadedFiles[j]
                   /\ \A j \in (index + 1)..Len(uploadedFiles') :
                        uploadedFiles'[j] = uploadedFiles[j + 1]
              ELSE uploadedFiles' = uploadedFiles
         /\ prompt' = prompt
         /\ images' = images
         /\ isGenerating' = isGenerating]_vars

\* The second of four entries was removed while a request was in flight.
C10_Witness ==
  /\ fileEvent = [kind |-> "remove", arg |-> 1]
  /\ uploadedFiles = <<1, 3, 4>>
  /\ isGenerating
  /\ inflight # <<>>

\* C11: the records made from one successful response all carry the same
\* timestamp, also when the clock advances while the batch is built.
C11_OneTimestampPerBatch ==
  [][(settled' # settled /\ settled'.outcome = "fulfilled") =>
       \A i, j \in 1..Len(settled'.value) :
         images'[i].timestamp = images'[j].timestamp]_vars

\* A step of handleGenerate that hands a request to the endpoint.
C12_Submits ==
  /\ serviceCalls' = serviceCalls + 1
  /\ Len(inflight') = Len(inflight) + 1

\* C12: a request carries the prompt, aspect ratio and model of the moment of
\* submission, and the records made from its answer carry the prompt text
\* that request sent, whatever the user edits while it is in flight.
C12_ProvenanceKept ==
  [][/\ C12_Submits =>
          Last(inflight').sent =
            <<[model |-> model, text |-> prompt, aspectRatio |-> aspectRatio]>>
     /\ (settled' # settled /\ settled'.outcome = "fulfilled") =>
          \E i \in 1..Len(inflight) :
            /\ inflight[i].n = settled'.n
            /\ \A j \in 1..Len(settled'.value) :
                 images'[j].prompt = inflight[i].sent[1].text]_vars

\* Prompt, aspect ratio and model were all edited while the second request is
\* in flight, and the record of the first request keeps its own prompt.
C12_Witness ==
  /\ Len(inflight) = 1
  /\ inflight[1].n = 2
  /\ inflight[1].sent[1].text # prompt
  /\ inflight[1].sent[1].aspectRatio # aspectRatio
  /\ inflight[1].sent[1].model # model
  /\ images # <<>>
  /\ images[1].prompt # prompt
  /\ images[1].prompt # inflight[1].sent[1].text

====
